---- MODULE Spec2Model ----
(***************************************************************************)
(* Model of the Synthesizer component (mysynth/src/Components/             *)
(* Synthesizer.jsx): the keyboard handlers that guard the set of held      *)
(* notes, the octave and tone settings, and the recording cycle            *)
(* (startRecording / stopRecording / MediaRecorder callbacks / onstop /    *)
(* convertToMp3).  The earlier variant of the component kept in part_001   *)
(* differs in stopRecording; it has a specification of its own.            *)
(*                                                                         *)
(* The key handlers and the recording handlers share no variable: each     *)
(* reads and writes its own group only.  SpecKeys and SpecRec explore the  *)
(* two groups separately, each from the initial state of the other; Spec   *)
(* is their interleaving.  SpecEncode applies the conversion that ends a   *)
(* recording to each buffer of a bounded set.  SpecTone runs the tone      *)
(* inputs beside a held key and a recording, SpecSuspended starts each     *)
(* recording while the onstop before it is at its await, and SpecRecFair   *)
(* is SpecRec with the stop event and the awaited promise sure to come.    *)
(***************************************************************************)
EXTENDS Integers, Sequences, FiniteSets, TLC

VARIABLES
  settings,        \* useState settings: octave and one tone parameter
  synthParams,     \* tone parameter the synth was last built / set with
  listenerOctave,  \* settings.octave captured by the registered key listeners
  effectPending,   \* a render has committed whose useEffect has not run yet
  activeNotes,     \* activeNotes.current
  effects,         \* calls made on the synth: triggerAttack / triggerRelease
  inputs,          \* history: user events delivered to the component
  mediaRecorder,   \* mediaRecorder.current (0 is null, else a recorder id)
  recState,        \* per MediaRecorder object: where it is in its life
  audioChunks,     \* audioChunks.current
  audioBlob,       \* per recorder: the Blob its onstop built (local audioBlob)
  finalize,        \* per recorder: position of its async onstop handler
  result,          \* per recorder: how its onstop ended
  saved,           \* calls of saveAs, in order
  arrived,         \* history: every chunk handed to ondataavailable, in order
  audioContext,    \* audioContext.current ("null" until the first start)
  taps,            \* stream destinations connected to the synth
  thrown           \* what the last start / stop button handler threw

keyVars == <<settings, synthParams, listenerOctave, effectPending, activeNotes,
             effects, inputs>>
recVars == <<mediaRecorder, recState, audioChunks, audioBlob, finalize, result,
             saved, arrived, audioContext, taps, thrown>>
vars == <<keyVars, recVars>>

----------------------------------------------------------------------------
(* Bounds of the exploration. *)

\* user events (keys, mouse, octave, tone) in one behaviour
MaxInputs == 4
\* clicks on Start Recording in one behaviour
MaxStarts == 2
\* chunks the capture device delivers in one behaviour
MaxChunks == 3
\* whole blocks of samples in a buffer handed to convertToMp3
MaxBlocks == 3

----------------------------------------------------------------------------
(* Key codes, notes, pitches. *)

null == "null"

\* key codes the keyboard sends in the model: two of the table, one outside it
KeyCodes == {65, 83, 66}

\* the notes of the on-screen keyboard used in the model (a white key)
MouseNotes == {"C"}

\* values of the tone slider used in the model
ToneValues == {1, 2}

\* the codes of the table of getNoteFromKeyCode
TableCodes == {65, 83, 68, 70, 71, 72, 74, 75, 76, 186, 222}

\* getNoteFromKeyCode with key code 83 giving the note of key code 65
getNoteFromKeyCode_sameNote(keyCode) ==
  CASE keyCode = 65  -> "C"
    [] keyCode = 83  -> "C"
    [] keyCode = 68  -> "E"
    [] keyCode = 70  -> "F"
    [] keyCode = 71  -> "G"
    [] keyCode = 72  -> "A"
    [] keyCode = 74  -> "B"
    [] keyCode = 75  -> "C#"
    [] keyCode = 76  -> "D#"
    [] keyCode = 186 -> "F#"
    [] keyCode = 222 -> "G#"
    [] OTHER         -> null

\* getNoteFromKeyCode with one more case, for key code 66
getNoteFromKeyCode_extraCase(keyCode) ==
  CASE keyCode = 65  -> "C"
    [] keyCode = 83  -> "D"
    [] keyCode = 66  -> "A#"
    [] OTHER         -> null

getNoteFromKeyCode(keyCode) ==
  CASE keyCode = 65  -> "C"
    [] keyCode = 83  -> "D"
    [] keyCode = 68  -> "E"
    [] keyCode = 70  -> "F"
    [] keyCode = 71  -> "G"
    [] keyCode = 72  -> "A"
    [] keyCode = 74  -> "B"
    [] keyCode = 75  -> "C#"
    [] keyCode = 76  -> "D#"
    [] keyCode = 186 -> "F#"
    [] keyCode = 222 -> "G#"
    [] OTHER         -> null

\* `${note}${octave}`: the note name followed by the octave number
getNoteWithOctave(note, octave) == [note |-> note, octave |-> octave]

Attack(pitch)  == [op |-> "triggerAttack",  pitch |-> pitch]
Release(pitch) == [op |-> "triggerRelease", pitch |-> pitch]

Event(type, code, note) == [type |-> type, code |-> code, note |-> note]

----------------------------------------------------------------------------
(* Keyboard, mouse, octave and tone handlers. *)

\* after the mount: the first run of the effect has built the synth from the
\* initial settings and registered the key listeners (synth.current is set)
InitKeys ==
  /\ settings = [octave |-> 4, envelopeAttack |-> 1]
  /\ synthParams = 1
  /\ listenerOctave = 4
  /\ effectPending = FALSE
  /\ activeNotes = {}
  /\ effects = <<>>
  /\ inputs = <<>>

\* handleKeyDown without the test !activeNotes.current.has(note)
handleKeyDown_noHeldTest(keyCode) ==
  LET note == getNoteFromKeyCode(keyCode) IN
  /\ Len(inputs) < MaxInputs
  /\ inputs' = Append(inputs, Event("keydown", keyCode, null))
  /\ IF note # null
       THEN /\ activeNotes' = activeNotes \cup {note}
            /\ effects' = Append(effects, Attack(getNoteWithOctave(note, listenerOctave)))
       ELSE UNCHANGED <<activeNotes, effects>>
  /\ UNCHANGED <<settings, synthParams, listenerOctave, effectPending, recVars>>

\* handleKeyDown without activeNotes.current.add(note)
handleKeyDown_noAdd(keyCode) ==
  LET note == getNoteFromKeyCode(keyCode) IN
  /\ Len(inputs) < MaxInputs
  /\ inputs' = Append(inputs, Event("keydown", keyCode, null))
  /\ IF note # null /\ note \notin activeNotes
       THEN /\ activeNotes' = activeNotes
            /\ effects' = Append(effects, Attack(getNoteWithOctave(note, listenerOctave)))
       ELSE UNCHANGED <<activeNotes, effects>>
  /\ UNCHANGED <<settings, synthParams, listenerOctave, effectPending, recVars>>

\* the listener registered by the last run of the effect; its closure holds
\* the settings of the render that effect belonged to
handleKeyDown(keyCode) ==
  LET note == getNoteFromKeyCode(keyCode) IN
  /\ Len(inputs) < MaxInputs
  /\ inputs' = Append(inputs, Event("keydown", keyCode, null))
  /\ IF note # null /\ note \notin activeNotes
       THEN /\ activeNotes' = activeNotes \cup {note}
            /\ effects' = Append(effects, Attack(getNoteWithOctave(note, listenerOctave)))
       ELSE UNCHANGED <<activeNotes, effects>>
  /\ UNCHANGED <<settings, synthParams, listenerOctave, effectPending, recVars>>

\* handleKeyUp without the test activeNotes.current.has(note)
handleKeyUp_noHeldTest(keyCode) ==
  LET note == getNoteFromKeyCode(keyCode) IN
  /\ Len(inputs) < MaxInputs
  /\ inputs' = Append(inputs, Event("keyup", keyCode, null))
  /\ IF note # null
       THEN /\ activeNotes' = activeNotes \ {note}
            /\ effects' = Append(effects, Release(getNoteWithOctave(note, listenerOctave)))
       ELSE UNCHANGED <<activeNotes, effects>>
  /\ UNCHANGED <<settings, synthParams, listenerOctave, effectPending, recVars>>

\* handleKeyUp without activeNotes.current.delete(note)
handleKeyUp_noDelete(keyCode) ==
  LET note == getNoteFromKeyCode(keyCode) IN
  /\ Len(inputs) < MaxInputs
  /\ inputs' = Append(inputs, Event("keyup", keyCode, null))
  /\ IF note # null /\ note \in activeNotes
       THEN /\ activeNotes' = activeNotes
            /\ effects' = Append(effects, Release(getNoteWithOctave(note, listenerOctave)))
       ELSE UNCHANGED <<activeNotes, effects>>
  /\ UNCHANGED <<settings, synthParams, listenerOctave, effectPending, recVars>>

handleKeyUp(keyCode) ==
  LET note == getNoteFromKeyCode(keyCode) IN
  /\ Len(inputs) < MaxInputs
  /\ inputs' = Append(inputs, Event("keyup", keyCode, null))
  /\ IF note # null /\ note \in activeNotes
       THEN /\ activeNotes' = activeNotes \ {note}
            /\ effects' = Append(effects, Release(getNoteWithOctave(note, listenerOctave)))
       ELSE UNCHANGED <<activeNotes, effects>>
  /\ UNCHANGED <<settings, synthParams, listenerOctave, effectPending, recVars>>

\* the on-screen keys (onTouchStart / onTouchEnd run the same code): no guard
\* on activeNotes, and the octave of the current render
onMouseDown(note) ==
  /\ Len(inputs) < MaxInputs
  /\ inputs' = Append(inputs, Event("mousedown", 0, note))
  /\ effects' = Append(effects, Attack(getNoteWithOctave(note, settings.octave)))
  /\ UNCHANGED <<settings, synthParams, listenerOctave, effectPending, activeNotes, recVars>>

onMouseUp(note) ==
  /\ Len(inputs) < MaxInputs
  /\ inputs' = Append(inputs, Event("mouseup", 0, note))
  /\ effects' = Append(effects, Release(getNoteWithOctave(note, settings.octave)))
  /\ UNCHANGED <<settings, synthParams, listenerOctave, effectPending, activeNotes, recVars>>

\* the effect forgetting the held notes when it sets the synth anew
useEffect_clearsHeld ==
  /\ effectPending
  /\ effectPending' = FALSE
  /\ synthParams' = settings.envelopeAttack
  /\ listenerOctave' = settings.octave
  /\ activeNotes' = {}
  /\ UNCHANGED <<settings, effects, inputs, recVars>>

\* the body of useEffect(..., [settings]) after the mount: synth.current.set
\* with the tone settings, and new key listeners closed over this render
useEffect ==
  /\ effectPending
  /\ effectPending' = FALSE
  /\ synthParams' = settings.envelopeAttack
  /\ listenerOctave' = settings.octave
  /\ UNCHANGED <<settings, activeNotes, effects, inputs, recVars>>

\* a state update re-renders; the effect of the render before it, when it has
\* not run yet, runs before the new render commits
Rendered(newSettings) ==
  /\ settings' = newSettings
  /\ synthParams' = IF effectPending THEN settings.envelopeAttack ELSE synthParams
  /\ listenerOctave' = IF effectPending THEN settings.octave ELSE listenerOctave
  /\ effectPending' = TRUE

\* handleOctaveChange forgetting the held notes
handleOctaveChange_clearsHeld(direction) ==
  /\ Len(inputs) < MaxInputs
  /\ inputs' = Append(inputs, Event("octave", 0, direction))
  /\ Rendered([settings EXCEPT !.octave =
                 IF direction = "up" THEN settings.octave + 1 ELSE settings.octave - 1])
  /\ activeNotes' = {}
  /\ UNCHANGED <<effects, recVars>>

\* handleOctaveChange keeping the octave between 1 and 7
handleOctaveChange_clamped(direction) ==
  /\ Len(inputs) < MaxInputs
  /\ inputs' = Append(inputs, Event("octave", 0, direction))
  /\ Rendered([settings EXCEPT !.octave =
                 IF direction = "up"
                   THEN (IF settings.octave < 7 THEN settings.octave + 1 ELSE 7)
                   ELSE (IF settings.octave > 1 THEN settings.octave - 1 ELSE 1)])
  /\ UNCHANGED <<activeNotes, effects, recVars>>

handleOctaveChange(direction) ==
  /\ Len(inputs) < MaxInputs
  /\ inputs' = Append(inputs, Event("octave", 0, direction))
  /\ Rendered([settings EXCEPT !.octave =
                 IF direction = "up" THEN settings.octave + 1 ELSE settings.octave - 1])
  /\ UNCHANGED <<activeNotes, effects, recVars>>

handleSettingChange(value) ==
  /\ Len(inputs) < MaxInputs
  /\ inputs' = Append(inputs, Event("setting", value, null))
  /\ Rendered([settings EXCEPT !.envelopeAttack = value])
  /\ UNCHANGED <<activeNotes, effects, recVars>>

NextKeys ==
  \/ \E keyCode \in KeyCodes : handleKeyDown(keyCode)
  \/ \E keyCode \in KeyCodes : handleKeyUp(keyCode)
  \/ \E note \in MouseNotes : onMouseDown(note)
  \/ \E note \in MouseNotes : onMouseUp(note)
  \/ \E direction \in {"up", "down"} : handleOctaveChange(direction)
  \/ \E value \in ToneValues : handleSettingChange(value)
  \/ useEffect

----------------------------------------------------------------------------
(* Captured audio: chunks, Blobs, byte buffers. *)

RecIds == 1 .. MaxStarts

\* a run of bytes of a chunk: a container header or sample data
Seg(kind, bytes, dataLen) == [kind |-> kind, bytes |-> bytes, dataLen |-> dataLen]

\* a complete WAV header: the fmt fields and the length the data chunk declares
WavHeader(channels, bitsPerSample, dataLen) ==
  [kind |-> "hdr", bytes |-> 44, dataLen |-> dataLen,
   channels |-> channels, bitsPerSample |-> bitsPerSample]

\* the contents the capture device hands out in the model: a header followed
\* by 56 bytes of samples (100 bytes), 250 bytes and 76 bytes of samples
ChunkPool ==
  { <<WavHeader(1, 16, 56), Seg("pcm", 56, 0)>>,
    <<Seg("pcm", 250, 0)>>,
    <<Seg("pcm", 76, 0)>> }

\* event.data of a dataavailable event of recorder rec
Chunk(rec, data) == [rec |-> rec, data |-> data]

RECURSIVE Concat(_)
\* new Blob(parts) followed by arrayBuffer(): the parts' bytes, in order
Concat(parts) ==
  IF parts = <<>> THEN <<>> ELSE Head(parts).data \o Concat(Tail(parts))

RECURSIVE ByteLength(_)
ByteLength(buffer) ==
  IF buffer = <<>> THEN 0 ELSE Head(buffer).bytes + ByteLength(Tail(buffer))

----------------------------------------------------------------------------
(* convertToMp3 and the lamejs calls it makes.  An encoder output buffer    *)
(* is modelled by the number of MP3 frames in it: 0 is a buffer of length 0. *)

sampleBlockSize == 1152

\* lamejs.WavHeader.readHeader: the header at the front of the buffer, or a
\* failure (DecodeError) when it is cut short, is no WAV header, or declares
\* more data than the buffer holds
readHeader(wavBuffer) ==
  IF /\ wavBuffer # <<>>
     /\ Head(wavBuffer).kind = "hdr"
     /\ Head(wavBuffer).bytes = WavHeader(1, 16, 0).bytes
     /\ Head(wavBuffer).dataLen <= ByteLength(Tail(wavBuffer))
    THEN [ok |-> TRUE, dataOffset |-> Head(wavBuffer).bytes,
          dataLen |-> Head(wavBuffer).dataLen,
          channels |-> Head(wavBuffer).channels,
          bitsPerSample |-> Head(wavBuffer).bitsPerSample]
    ELSE [ok |-> FALSE, dataOffset |-> 0, dataLen |-> 0,
          channels |-> 0, bitsPerSample |-> 0]

\* new lamejs.Mp3Encoder(1, sampleRate, 128): no sample held yet
Mp3Encoder == 0

\* mp3Encoder.encodeBuffer(sampleChunk) on an encoder holding `held` samples:
\* one frame for every 1152 samples held beyond one block of lookahead
encodeBuffer(held, n) ==
  LET total == held + n
      frames == IF total >= 2 * sampleBlockSize
                  THEN (total - sampleBlockSize) \div sampleBlockSize ELSE 0
  IN [held |-> total - frames * sampleBlockSize, mp3buf |-> frames]

\* mp3Encoder.flush(): what is still held, padded to whole frames
flush(held) == (held + sampleBlockSize - 1) \div sampleBlockSize

\* new Int16Array(wavBuffer, wav.dataOffset, wav.dataLen / 2) with wavBuffer a
\* Uint8Array: a typed-array argument is copied element by element and the
\* offset and length arguments are not used, so there is one sample per byte
samplesLength(wavBuffer, wav) == ByteLength(wavBuffer)

RECURSIVE BlockLoop_pushesEmpty(_, _, _, _, _, _)
\* the loop without the test mp3buf.length > 0
BlockLoop_pushesEmpty(i, length, held, mp3Data, blocks, offsets) ==
  IF i < length
    THEN LET sampleChunk == IF i + sampleBlockSize <= length
                              THEN sampleBlockSize ELSE length - i
             enc == encodeBuffer(held, sampleChunk)
         IN BlockLoop_pushesEmpty(i + sampleBlockSize, length, enc.held,
                                  Append(mp3Data, enc.mp3buf), Append(blocks, sampleChunk),
                                  Append(offsets, i))
    ELSE [held |-> held, mp3Data |-> mp3Data, blocks |-> blocks, offsets |-> offsets]

RECURSIVE BlockLoop_stride1024(_, _, _, _, _, _)
\* the loop with i += 1024: blocks of 1152 samples that overlap
BlockLoop_stride1024(i, length, held, mp3Data, blocks, offsets) ==
  IF i < length
    THEN LET sampleChunk == IF i + sampleBlockSize <= length
                              THEN sampleBlockSize ELSE length - i
             enc == encodeBuffer(held, sampleChunk)
         IN BlockLoop_stride1024(i + 1024, length, enc.held,
                                 IF enc.mp3buf > 0 THEN Append(mp3Data, enc.mp3buf) ELSE mp3Data,
                                 Append(blocks, sampleChunk), Append(offsets, i))
    ELSE [held |-> held, mp3Data |-> mp3Data, blocks |-> blocks, offsets |-> offsets]

RECURSIVE BlockLoop(_, _, _, _, _, _)
\* for (let i = 0; i < samples.length; i += sampleBlockSize) { ... }: blocks
\* and offsets are the length and the first index of every subarray passed
\* to encodeBuffer
BlockLoop(i, length, held, mp3Data, blocks, offsets) ==
  IF i < length
    THEN LET sampleChunk == IF i + sampleBlockSize <= length
                              THEN sampleBlockSize ELSE length - i
             enc == encodeBuffer(held, sampleChunk)
         IN BlockLoop(i + sampleBlockSize, length, enc.held,
                      IF enc.mp3buf > 0 THEN Append(mp3Data, enc.mp3buf) ELSE mp3Data,
                      Append(blocks, sampleChunk), Append(offsets, i))
    ELSE [held |-> held, mp3Data |-> mp3Data, blocks |-> blocks, offsets |-> offsets]

\* convertToMp3 going on with whatever readHeader gave, no throw
convertToMp3_noThrow(wavBuffer) ==
  LET wav == readHeader(wavBuffer)
      loop == BlockLoop(0, samplesLength(wavBuffer, wav), Mp3Encoder, <<>>, <<>>, <<>>)
      mp3buf == flush(loop.held)
  IN [threw |-> FALSE, error |-> "none",
      mp3Data |-> IF mp3buf > 0 THEN Append(loop.mp3Data, mp3buf) ELSE loop.mp3Data,
      blocks |-> loop.blocks, offsets |-> loop.offsets]

\* the value returned, or threw = TRUE when a statement of the body throws
convertToMp3(wavBuffer) ==
  LET wav == readHeader(wavBuffer) IN
  IF ~wav.ok
    THEN [threw |-> TRUE, error |-> "DecodeError", mp3Data |-> <<>>, blocks |-> <<>>,
          offsets |-> <<>>]
    ELSE LET loop == BlockLoop(0, samplesLength(wavBuffer, wav), Mp3Encoder, <<>>, <<>>, <<>>)
             mp3buf == flush(loop.held)
         IN [threw |-> FALSE, error |-> "none",
             mp3Data |-> IF mp3buf > 0 THEN Append(loop.mp3Data, mp3buf) ELSE loop.mp3Data,
             blocks |-> loop.blocks, offsets |-> loop.offsets]

----------------------------------------------------------------------------
(* The recording cycle.  A MediaRecorder r is "none" until it is created,   *)
(* "recording" after start(), "stopping" once stop() was called on it,      *)
(* "flushed" when it has delivered its last chunk, and "inactive" when its   *)
(* stop event has been dispatched.  The device delivers chunks while it      *)
(* records, and after stop() at most one more chunk and then the stop event. *)

InitRec ==
  /\ mediaRecorder = 0
  /\ recState = [r \in RecIds |-> "none"]
  /\ audioChunks = <<>>
  /\ audioBlob = [r \in RecIds |-> <<>>]
  /\ finalize = [r \in RecIds |-> "idle"]
  /\ result = [r \in RecIds |-> "none"]
  /\ saved = <<>>
  /\ arrived = <<>>
  /\ audioContext = "null"
  /\ taps = 0
  /\ thrown = "none"

Created == {r \in RecIds : recState[r] # "none"}

initializeAudioContext == "running"

\* mediaRecorderWorks: whether new MediaRecorder(stream) returns a recorder
startRecording(mediaRecorderWorks) ==
  LET r == Cardinality(Created) + 1 IN
  /\ taps < MaxStarts
  /\ audioContext' = initializeAudioContext
  /\ taps' = taps + 1
  /\ IF mediaRecorderWorks
       THEN /\ mediaRecorder' = r
            /\ recState' = [recState EXCEPT ![r] = "recording"]
            /\ thrown' = "none"
       ELSE /\ thrown' = "NotSupportedError"
            /\ UNCHANGED <<mediaRecorder, recState>>
  /\ UNCHANGED <<audioChunks, audioBlob, finalize, result, saved, arrived, keyVars>>

\* MediaRecorder.stop(): nothing on a recorder that is not recording
stop(r) == IF recState[r] = "recording" THEN [recState EXCEPT ![r] = "stopping"] ELSE recState

\* stopRecording building the Blob itself, right after stop(), instead of
\* leaving it to the recorder's onstop
stopRecording_buildsBlob ==
  /\ recState' = IF mediaRecorder # 0 THEN stop(mediaRecorder) ELSE recState
  /\ thrown' = "none"
  /\ IF mediaRecorder # 0 /\ recState[mediaRecorder] = "recording"
       THEN /\ audioBlob' = [audioBlob EXCEPT ![mediaRecorder] = audioChunks]
            /\ audioChunks' = <<>>
            /\ finalize' = [finalize EXCEPT ![mediaRecorder] = "awaiting"]
       ELSE UNCHANGED <<audioBlob, audioChunks, finalize>>
  /\ UNCHANGED <<mediaRecorder, result, saved, arrived, audioContext, taps, keyVars>>

stopRecording ==
  /\ recState' = IF mediaRecorder # 0 THEN stop(mediaRecorder) ELSE recState
  /\ thrown' = "none"
  /\ UNCHANGED <<mediaRecorder, audioChunks, audioBlob, finalize, result, saved,
                 arrived, audioContext, taps, keyVars>>

\* the variant of part_001: no test of mediaRecorder.current
stopRecording_part001 ==
  /\ IF mediaRecorder # 0
       THEN recState' = stop(mediaRecorder) /\ thrown' = "none"
       ELSE recState' = recState /\ thrown' = "TypeError"
  /\ UNCHANGED <<mediaRecorder, audioChunks, audioBlob, finalize, result, saved,
                 arrived, audioContext, taps, keyVars>>

\* ondataavailable with unshift in place of push
ondataavailable_unshift(data) == <<data>> \o audioChunks

\* mediaRecorder.current.ondataavailable
ondataavailable(data) == Append(audioChunks, data)

\* a dataavailable event of recorder r while it records
DeviceChunk(r, data) ==
  /\ recState[r] = "recording"
  /\ Len(arrived) < MaxChunks
  /\ audioChunks' = ondataavailable(Chunk(r, data))
  /\ arrived' = Append(arrived, Chunk(r, data))
  /\ UNCHANGED <<mediaRecorder, recState, audioBlob, finalize, result, saved,
                 audioContext, taps, thrown, keyVars>>

\* the dataavailable event that follows stop(): what was gathered since the
\* last chunk
DeviceLastChunk(r, data) ==
  /\ recState[r] = "stopping"
  /\ Len(arrived) < MaxChunks
  /\ audioChunks' = ondataavailable(Chunk(r, data))
  /\ arrived' = Append(arrived, Chunk(r, data))
  /\ recState' = [recState EXCEPT ![r] = "flushed"]
  /\ UNCHANGED <<mediaRecorder, audioBlob, finalize, result, saved,
                 audioContext, taps, thrown, keyVars>>

\* onstop without audioChunks.current = []
onstop_keepsChunks(r) ==
  /\ recState[r] \in {"stopping", "flushed"}
  /\ recState' = [recState EXCEPT ![r] = "inactive"]
  /\ audioBlob' = [audioBlob EXCEPT ![r] = audioChunks]
  /\ audioChunks' = audioChunks
  /\ finalize' = [finalize EXCEPT ![r] = "awaiting"]
  /\ UNCHANGED <<mediaRecorder, result, saved, arrived, audioContext, taps,
                 thrown, keyVars>>

\* mediaRecorder.current.onstop, up to its await: the Blob is built from the
\* chunk list and the list is emptied
onstop(r) ==
  /\ recState[r] \in {"stopping", "flushed"}
  /\ recState' = [recState EXCEPT ![r] = "inactive"]
  /\ audioBlob' = [audioBlob EXCEPT ![r] = audioChunks]
  /\ audioChunks' = <<>>
  /\ finalize' = [finalize EXCEPT ![r] = "awaiting"]
  /\ UNCHANGED <<mediaRecorder, result, saved, arrived, audioContext, taps,
                 thrown, keyVars>>

\* onstop emptying the chunk list after its await instead of before it
onstopResumed_clearsChunks(r) ==
  LET mp3Buffer == convertToMp3(Concat(audioBlob[r])) IN
  /\ finalize[r] = "awaiting"
  /\ finalize' = [finalize EXCEPT ![r] = "done"]
  /\ audioChunks' = <<>>
  /\ IF mp3Buffer.threw
       THEN /\ result' = [result EXCEPT ![r] = "rejected"]
            /\ saved' = saved
       ELSE /\ result' = [result EXCEPT ![r] = "saved"]
            /\ saved' = Append(saved, [rec |-> r, mp3 |-> mp3Buffer.mp3Data])
  /\ UNCHANGED <<mediaRecorder, recState, audioBlob, arrived,
                 audioContext, taps, thrown, keyVars>>

\* onstop after its await: convertToMp3 and saveAs; a throw rejects the
\* promise of the handler and nothing after it runs
onstopResumed(r) ==
  LET mp3Buffer == convertToMp3(Concat(audioBlob[r])) IN
  /\ finalize[r] = "awaiting"
  /\ finalize' = [finalize EXCEPT ![r] = "done"]
  /\ IF mp3Buffer.threw
       THEN /\ result' = [result EXCEPT ![r] = "rejected"]
            /\ saved' = saved
       ELSE /\ result' = [result EXCEPT ![r] = "saved"]
            /\ saved' = Append(saved, [rec |-> r, mp3 |-> mp3Buffer.mp3Data])
  /\ UNCHANGED <<mediaRecorder, recState, audioChunks, audioBlob, arrived,
                 audioContext, taps, thrown, keyVars>>

Device ==
  \/ \E r \in RecIds, data \in ChunkPool : DeviceChunk(r, data)
  \/ \E r \in RecIds, data \in ChunkPool : DeviceLastChunk(r, data)
  \/ \E r \in RecIds : onstop(r)
  \/ \E r \in RecIds : onstopResumed(r)

NextRec ==
  \/ \E mediaRecorderWorks \in BOOLEAN : startRecording(mediaRecorderWorks)
  \/ stopRecording
  \/ Device

NextPart001 ==
  \/ \E mediaRecorderWorks \in BOOLEAN : startRecording(mediaRecorderWorks)
  \/ stopRecording_part001
  \/ Device

----------------------------------------------------------------------------
(* Specifications. *)

Init == InitKeys /\ InitRec

Next == NextKeys \/ NextRec

Spec == Init /\ [][Next]_vars

\* the keyboard, octave and tone handlers alone
SpecKeys == Init /\ [][NextKeys]_vars

\* the recording cycle alone
SpecRec == Init /\ [][NextRec]_vars

\* the recording cycle with what the browser guarantees: a recorder that was
\* stopped dispatches its stop event, and the promise onstop awaits settles
SpecRecFair ==
  /\ SpecRec
  /\ \A r \in RecIds : WF_vars(onstop(r)) /\ WF_vars(onstopResumed(r))

\* the recording cycle of the component of part_001
SpecPart001 == Init /\ [][NextPart001]_vars

\* the lengths, in bytes, of the buffers handed to convertToMp3: whole blocks
\* and whole blocks followed by 1, 600 or 1151 more
BufferLengths ==
  {k * sampleBlockSize + d : k \in 0 .. MaxBlocks, d \in {0, 1, 600, 1151}} \ {0, 1}

\* the headers a buffer of `length` bytes may begin with: a mono 16-bit WAV
\* header, a stereo one, an 8-bit one, one declaring more data than follows,
\* and the header of another container
HeadersFor(length) ==
  LET dataLen == length - WavHeader(1, 16, 0).bytes IN
  { WavHeader(1, 16, dataLen), WavHeader(2, 16, dataLen), WavHeader(1, 8, dataLen),
    WavHeader(1, 16, dataLen + 2),
    Seg("webm", WavHeader(1, 16, 0).bytes, 0) }

\* the first 20 bytes of a WAV header
TruncatedHeader == [WavHeader(1, 16, 0) EXCEPT !.bytes = 20]

\* the buffers handed to convertToMp3: nothing at all, a header cut short, or
\* a header and sample data, `length` bytes together
WavBuffers ==
  {<<>>, <<TruncatedHeader>>} \cup
  UNION { { <<header, Seg("pcm", length - header.bytes, 0)>> : header \in HeadersFor(length) } :
          length \in BufferLengths }

\* onstop of recorder 1 has built its Blob, of one chunk, and awaits its bytes
InitEncode ==
  /\ InitKeys
  /\ \E wavBuffer \in WavBuffers :
       /\ audioBlob = [r \in RecIds |-> IF r = 1 THEN <<Chunk(1, wavBuffer)>> ELSE <<>>]
       /\ arrived = <<Chunk(1, wavBuffer)>>
  /\ mediaRecorder = 1
  /\ recState = [r \in RecIds |-> IF r = 1 THEN "inactive" ELSE "none"]
  /\ audioChunks = <<>>
  /\ finalize = [r \in RecIds |-> IF r = 1 THEN "awaiting" ELSE "idle"]
  /\ result = [r \in RecIds |-> "none"]
  /\ saved = <<>>
  /\ audioContext = initializeAudioContext
  /\ taps = 1
  /\ thrown = "none"

NextEncode == \E r \in RecIds : onstopResumed(r)

\* convertToMp3 applied to each buffer of WavBuffers
SpecEncode == InitEncode /\ [][NextEncode]_vars

\* the tone inputs at work while a key is held and a recording runs
NextTone ==
  \/ \E value \in ToneValues : handleSettingChange(value)
  \/ useEffect
  \/ handleKeyDown(65)
  \/ startRecording(TRUE)
  \/ stopRecording
  \/ \E r \in RecIds : DeviceChunk(r, <<Seg("pcm", 76, 0)>>)

SpecTone == Init /\ [][NextTone]_vars

\* a click on Start Recording made before any recording, or while the onstop
\* of the recorder in use is suspended at its await
StartWhileSuspended ==
  /\ IF mediaRecorder = 0 THEN TRUE ELSE finalize[mediaRecorder] = "awaiting"
  /\ startRecording(TRUE)

NextSuspended ==
  \/ StartWhileSuspended
  \/ stopRecording
  \/ Device

\* the recording cycle when every recording after the first is started
\* while the onstop of the one before it awaits its buffer
SpecSuspended == Init /\ [][NextSuspended]_vars

\* the session state of the recording cycle, read off the recorders
SessionState ==
  IF mediaRecorder # 0 /\ recState[mediaRecorder] = "recording" THEN "Capturing"
  ELSE IF \E r \in RecIds : recState[r] \in {"stopping", "flushed"} \/ finalize[r] = "awaiting"
         THEN "Finalizing"
  ELSE "Idle"

----------------------------------------------------------------------------
(* Held notes: claims C1 to C4, under SpecKeys. *)

KeyDown(keyCode) == Event("keydown", keyCode, null)
KeyUp(keyCode)   == Event("keyup", keyCode, null)

\* the step delivers event e to the component
Delivered(e) == inputs' = Append(inputs, e)

\* the calls on the synth without their octave: <<op, note>>
RECURSIVE OpsOf(_)
OpsOf(log) ==
  IF log = <<>> THEN <<>>
  ELSE <<<<Head(log).op, Head(log).pitch.note>>>> \o OpsOf(Tail(log))

\* the effects NoteKeyState owes for a history of events: a press of a note
\* that is not held is a press transition (one attack), a release of a held
\* note is a release transition (one release), every other event is nothing
RECURSIVE Owed(_, _)
Owed(log, held) ==
  IF log = <<>> THEN <<>>
  ELSE LET e == Head(log)
           n == getNoteFromKeyCode(e.code)
       IN IF e.type = "keydown" /\ n # null /\ n \notin held
            THEN <<<<"triggerAttack", n>>>> \o Owed(Tail(log), held \cup {n})
          ELSE IF e.type = "keyup" /\ n # null /\ n \in held
            THEN <<<<"triggerRelease", n>>>> \o Owed(Tail(log), held \ {n})
          ELSE Owed(Tail(log), held)

\* no event of the on-screen keys, which call the synth without NoteKeyState
KeyboardOnly == \A i \in 1 .. Len(inputs) : inputs[i].type \notin {"mousedown", "mouseup"}

\* C1: a keydown for a note that is held emits nothing and leaves activeNotes
\* as it is; a keydown for a note that is not held emits exactly one
\* triggerAttack, for that note, and holds it; and a held note stays held
\* until a keyup for it, so that of two presses with no release between them
\* only the first attacks.
C1_RepeatedPressOneAttack ==
  [][ /\ \A keyCode \in KeyCodes :
           LET note == getNoteFromKeyCode(keyCode) IN
           (Delivered(KeyDown(keyCode)) /\ note # null) =>
              IF note \in activeNotes
                THEN effects' = effects /\ activeNotes' = activeNotes
                ELSE /\ Len(effects') = Len(effects) + 1
                     /\ SubSeq(effects', 1, Len(effects)) = effects
                     /\ effects'[Len(effects')].op = "triggerAttack"
                     /\ effects'[Len(effects')].pitch.note = note
                     /\ activeNotes' = activeNotes \cup {note}
      /\ \A note \in activeNotes :
           note \notin activeNotes' =>
              \E keyCode \in KeyCodes :
                 Delivered(KeyUp(keyCode)) /\ getNoteFromKeyCode(keyCode) = note
    ]_vars

\* C pressed twice, nothing else: one attack, C held
C1_Witness ==
  /\ inputs = <<KeyDown(65), KeyDown(65)>>
  /\ OpsOf(effects) = <<<<"triggerAttack", "C">>>>
  /\ activeNotes = {"C"}

\* C2: after any history of keyboard events (and octave or tone changes) the
\* calls made on the synth are, in order, one attack per press transition and
\* one release per release transition of that history; press C, press D,
\* release C, release D gives attack C, attack D, release C, release D.
C2_EffectsFollowTransitions ==
  /\ KeyboardOnly => OpsOf(effects) = Owed(inputs, {})
  /\ inputs = <<KeyDown(65), KeyDown(83), KeyUp(65), KeyUp(83)>> =>
       OpsOf(effects) = << <<"triggerAttack", "C">>, <<"triggerAttack", "D">>,
                           <<"triggerRelease", "C">>, <<"triggerRelease", "D">> >>

C2_Witness ==
  /\ inputs = <<KeyDown(65), KeyDown(83), KeyUp(65), KeyUp(83)>>
  /\ Len(effects) = 4
  /\ activeNotes = {}

\* C3: a keyup for a note that is not held calls nothing on the synth and
\* leaves activeNotes as it is.
C3_ReleaseNotHeldNoOp ==
  [][ \A keyCode \in KeyCodes :
        LET note == getNoteFromKeyCode(keyCode) IN
        (Delivered(KeyUp(keyCode)) /\ note # null /\ note \notin activeNotes) =>
           effects' = effects /\ activeNotes' = activeNotes
    ]_vars

\* D released while only C is held
C3_Witness ==
  /\ inputs = <<KeyDown(65), KeyUp(83)>>
  /\ OpsOf(effects) = <<<<"triggerAttack", "C">>>>
  /\ activeNotes = {"C"}

\* C4: getNoteFromKeyCode gives null for every code that is not in its table,
\* and a keydown or keyup with such a code changes no state of the component
\* and calls nothing on the synth.
C4_UnmappedCodeNoOp ==
  /\ [](\A keyCode \in 0 .. 255 : keyCode \notin TableCodes => getNoteFromKeyCode(keyCode) = null)
  /\ [][ \A keyCode \in KeyCodes \ TableCodes :
           (Delivered(KeyDown(keyCode)) \/ Delivered(KeyUp(keyCode))) =>
              UNCHANGED <<settings, synthParams, listenerOctave, effectPending,
                          activeNotes, effects, recVars>>
       ]_vars

\* key 66 pressed and released while C is held
C4_Witness ==
  /\ inputs = <<KeyDown(65), KeyDown(66), KeyUp(66)>>
  /\ OpsOf(effects) = <<<<"triggerAttack", "C">>>>
  /\ activeNotes = {"C"}

----------------------------------------------------------------------------
(* The recording cycle: claims C5 to C10. *)

\* the chunks of recorder r in a list of chunks
ChunksOf(r, log) == SelectSeq(log, LAMBDA c : c.rec = r)

\* the recorders whose onstop has built its Blob
Finalized == {r \in RecIds : finalize[r] # "idle"}

\* the orders in which the Blobs may have been built
BuildOrders ==
  {o \in [1 .. Cardinality(Finalized) -> Finalized] :
     \A i, j \in DOMAIN o : o[i] = o[j] => i = j}

RECURSIVE BlobsInOrder(_, _)
BlobsInOrder(o, i) ==
  IF i > Len(o) THEN <<>> ELSE audioBlob[o[i]] \o BlobsInOrder(o, i + 1)

RECURSIVE SumOfLengths(_)
SumOfLengths(parts) ==
  IF parts = <<>> THEN 0
  ELSE ByteLength(Head(parts).data) + SumOfLengths(Tail(parts))

\* the byte lengths of the chunks of a list, in order
RECURSIVE Lengths(_)
Lengths(parts) ==
  IF parts = <<>> THEN <<>>
  ELSE <<ByteLength(Head(parts).data)>> \o Lengths(Tail(parts))

\* no recorder other than r is recording, stopping or awaiting its buffer
OthersQuiet(r) ==
  \A q \in RecIds \ {r} :
     recState[q] \in {"none", "inactive"} /\ finalize[q] # "awaiting"

\* C5 (SpecRec): once the onstop of a recorder has begun to build its Blob,
\* no further chunk of that recorder is delivered, whatever the interleaving
\* of chunk events, stop clicks and stop events.
C5_NoChunkAfterConcat ==
  [][ \A r \in RecIds :
        finalize[r] # "idle" => ChunksOf(r, arrived') = ChunksOf(r, arrived) ]_vars

\* a recorder delivered a chunk after stop() and then built its Blob with it
C5_Witness ==
  \E r \in RecIds :
     /\ finalize[r] = "awaiting"
     /\ Len(audioBlob[r]) = 2
     /\ \A i \in 1 .. 2 : audioBlob[r][i].rec = r
     /\ ChunksOf(r, arrived) = audioBlob[r]

\* C6 (SpecRec): the chunks are kept in arrival order and each Blob is built
\* from them in that order: the Blobs, in the order they were built, followed
\* by the chunk list, are the chunks that arrived, none moved, lost or
\* repeated; and the buffer of a Blob has the sum of its chunks' lengths
\* (chunks of 100, 250 and 76 bytes give 426 bytes).
C6_BlobIsChunksInArrivalOrder ==
  /\ \E o \in BuildOrders : BlobsInOrder(o, 1) \o audioChunks = arrived
  /\ \A r \in Finalized :
        /\ ByteLength(Concat(audioBlob[r])) = SumOfLengths(audioBlob[r])
        /\ Lengths(audioBlob[r]) = <<100, 250, 76>> =>
              /\ ByteLength(Concat(audioBlob[r])) = 426
              /\ Concat(audioBlob[r]) = <<WavHeader(1, 16, 56), Seg("pcm", 56, 0),
                                         Seg("pcm", 250, 0), Seg("pcm", 76, 0)>>

\* chunks of 100, 250 and 76 bytes arrived in that order and the Blob is built
C6_Witness ==
  /\ Lengths(arrived) = <<100, 250, 76>>
  /\ finalize[1] = "awaiting"
  /\ audioBlob[1] = arrived
  /\ ByteLength(Concat(audioBlob[1])) = 426

\* the step is a click on Start Recording
StartClicked == taps' = taps + 1

\* C7 (SpecRec), as claimed: a click on Start Recording while the session is
\* Capturing changes neither the session state, nor the recorder in use, nor
\* the chunk list, and no second recorder records beside the first.
C7_StartWhileCapturingNoOp ==
  [][ (SessionState = "Capturing" /\ StartClicked) =>
         /\ UNCHANGED <<mediaRecorder, recState, audioChunks>>
         /\ Cardinality({r \in RecIds : recState'[r] = "recording"}) <= 1 ]_vars

\* C8 (SpecPart001), as claimed: a click on Stop Recording while the session
\* is Idle, before the first start or after a finished cycle, throws nothing,
\* changes no state and starts no finalize.
C8_StopWhileIdleNoOp ==
  [][ (SessionState = "Idle" /\ stopRecording_part001) =>
         /\ thrown' = "none"
         /\ UNCHANGED <<mediaRecorder, recState, audioChunks, audioBlob,
                        finalize, result, saved>> ]_vars

\* C9 (SpecRec): when the onstop of a recorder has ended, with the file saved
\* or with the conversion having thrown, that recorder is inactive, its
\* handler is not pending and none of its chunks is in the chunk list; unless
\* another recorder is at work the session is Idle and the chunk list empty;
\* and a recording started after it begins with an empty chunk list.
C9_FinalizeEndsIdle ==
  /\ \A r \in RecIds :
        result[r] # "none" =>
           /\ recState[r] = "inactive"
           /\ finalize[r] = "done"
           /\ ChunksOf(r, audioChunks) = <<>>
           /\ OthersQuiet(r) => (SessionState = "Idle" /\ audioChunks = <<>>)
  /\ \A r \in RecIds :
        (recState[r] = "recording" /\ ChunksOf(r, arrived) = <<>> /\ OthersQuiet(r)) =>
           audioChunks = <<>>

\* a recording whose conversion threw, chunks having arrived, and the next
\* recording started after it
C9_Witness ==
  /\ result[1] = "rejected"
  /\ audioBlob[1] # <<>>
  /\ mediaRecorder = 2
  /\ SessionState = "Capturing"
  /\ audioChunks = <<>>

\* C10 (SpecRec), as claimed: a recording stopped before any chunk arrived
\* ends with an empty buffer and an empty list of MP3 buffers handed to
\* saveAs, and nothing thrown.
C10_EmptyRecordingSavesEmpty ==
  \A r \in RecIds :
     (finalize[r] = "done" /\ audioBlob[r] = <<>>) =>
        /\ result[r] = "saved"
        /\ \E i \in 1 .. Len(saved) : saved[i].rec = r /\ saved[i].mp3 = <<>>

----------------------------------------------------------------------------
(* The conversion: claims C11 to C13, under SpecEncode. *)

\* the conversions that have run: recorder, buffer and what convertToMp3 did
Conversions ==
  { [rec |-> r, wavBuffer |-> Concat(audioBlob[r]),
     mp3Buffer |-> convertToMp3(Concat(audioBlob[r]))] :
    r \in {q \in RecIds : finalize[q] = "done"} }

\* C11 (SpecEncode), as claimed: whatever the number of samples, every block
\* the loop of convertToMp3 passes to encodeBuffer has exactly 1152 samples;
\* fewer than 1152 samples left over are never passed by the loop.
C11_LoopPassesOnlyFullBlocks ==
  \A c \in Conversions :
     \A i \in 1 .. Len(c.mp3Buffer.blocks) : c.mp3Buffer.blocks[i] = sampleBlockSize

\* spec 4.5: the header of the buffer cannot be parsed
Truncated(wavBuffer) == ByteLength(wavBuffer) < WavHeader(1, 16, 0).bytes
WrongFormatTag(wavBuffer) == wavBuffer # <<>> /\ Head(wavBuffer).kind # "hdr"
DeclaresTooMuch(wavBuffer) ==
  /\ wavBuffer # <<>>
  /\ Head(wavBuffer).kind = "hdr"
  /\ Head(wavBuffer).dataLen > ByteLength(wavBuffer) - Head(wavBuffer).bytes

C13_NotMono16FormatError ==
  \A c \in Conversions :
     LET wav == readHeader(c.wavBuffer) IN
     (wav.ok /\ (wav.channels # 1 \/ wav.bitsPerSample # 16)) =>
        /\ c.mp3Buffer.threw
        /\ c.mp3Buffer.error = "FormatError"
        /\ c.mp3Buffer.blocks = <<>>

----------------------------------------------------------------------------
(* A start that fails: claim C14, under SpecRec. *)

\* C14 (SpecRec), as claimed: a click on Start Recording in the Idle session
\* that cannot set up the capture fails with an error and leaves the session
\* Idle: the recorder in use and the recorders' states are as before, no
\* stream destination stays connected to the synth, and the chunk list is
\* as before.
C14_FailedStartLeavesNothing ==
  [][ (SessionState = "Idle" /\ startRecording(FALSE)) =>
         /\ thrown' # "none"
         /\ SessionState' = "Idle"
         /\ UNCHANGED <<mediaRecorder, recState, audioChunks>>
         /\ taps' = taps ]_vars

----------------------------------------------------------------------------
(* The octave and the key table: claims C15 to C18, under SpecKeys. *)

OctaveUp   == Event("octave", 0, "up")
OctaveDown == Event("octave", 0, "down")

\* the notes of the key table
Notes == {getNoteFromKeyCode(keyCode) : keyCode \in TableCodes}

\* the octave the shifts of a history of events lead to, from `octave`, when
\* every shift counts for one
RECURSIVE OctaveAfter(_, _)
OctaveAfter(log, octave) ==
  IF log = <<>> THEN octave
  ELSE OctaveAfter(Tail(log),
                   IF Head(log) = OctaveUp THEN octave + 1
                   ELSE IF Head(log) = OctaveDown THEN octave - 1
                   ELSE octave)

\* C15 (SpecKeys): every octave shift counts, upwards and downwards, so the
\* octave is the initial 4 plus the shifts up minus the shifts down, with no
\* bound in between; after a shift up followed by a shift down the octave is
\* what it was before the two, and so is the pitch of every note, for the
\* on-screen keys and, once the effect of the render has run, for the
\* keyboard.
C15_UpThenDownRestoresOctave ==
  /\ settings.octave = OctaveAfter(inputs, 4)
  /\ ~effectPending => listenerOctave = settings.octave
  /\ (Len(inputs) >= 2 /\ SubSeq(inputs, Len(inputs) - 1, Len(inputs)) = <<OctaveUp, OctaveDown>>) =>
        LET before == OctaveAfter(SubSeq(inputs, 1, Len(inputs) - 2), 4) IN
        /\ settings.octave = before
        /\ \A note \in Notes :
              /\ getNoteWithOctave(note, settings.octave) = getNoteWithOctave(note, before)
              /\ ~effectPending =>
                    getNoteWithOctave(note, listenerOctave) = getNoteWithOctave(note, before)

\* from octave 6, reached by two shifts up: up to 7 and down to 6 again
C15_Witness ==
  /\ inputs = <<OctaveUp, OctaveUp, OctaveUp, OctaveDown>>
  /\ settings.octave = 6
  /\ ~effectPending
  /\ listenerOctave = 6

\* C16 (SpecKeys): a shift of the octave changes the octave by exactly one,
\* up or down as asked, and leaves the held notes as they are and calls
\* nothing on the synth; nor does the effect that runs after the render.
C16_ShiftLeavesHeldNotes ==
  [][ /\ Delivered(OctaveUp) =>
           /\ settings'.octave = settings.octave + 1
           /\ UNCHANGED <<activeNotes, effects>>
      /\ Delivered(OctaveDown) =>
           /\ settings'.octave = settings.octave - 1
           /\ UNCHANGED <<activeNotes, effects>>
      /\ inputs' = inputs => UNCHANGED <<activeNotes, effects>>
    ]_vars

\* C held at octave 4, the octave shifted up and the effect run: C still
\* held, one attack and nothing else
C16_Witness ==
  /\ inputs = <<KeyDown(65), OctaveUp>>
  /\ settings.octave = 5
  /\ listenerOctave = 5
  /\ activeNotes = {"C"}
  /\ effects = <<Attack(getNoteWithOctave("C", 4))>>

\* the key codes getNoteFromKeyCode gives a note for
MappedCodes == {keyCode \in 0 .. 255 : getNoteFromKeyCode(keyCode) # null}

\* C17 (SpecKeys): getNoteFromKeyCode gives a note for exactly 11 key codes,
\* and a different note for each of them: 11 notes, no note for two codes;
\* so keys of different mapped codes hold different notes.
C17_ElevenCodesOneToOne ==
  /\ Cardinality(MappedCodes) = 11
  /\ \A a, b \in MappedCodes : getNoteFromKeyCode(a) = getNoteFromKeyCode(b) => a = b
  /\ Cardinality({getNoteFromKeyCode(keyCode) : keyCode \in MappedCodes}) = 11
  /\ inputs = <<KeyDown(65), KeyDown(83)>> => Cardinality(activeNotes) = 2

\* the keys of codes 65 and 83 pressed: two notes held, C and D
C17_Witness ==
  /\ inputs = <<KeyDown(65), KeyDown(83)>>
  /\ activeNotes = {getNoteFromKeyCode(65), getNoteFromKeyCode(83)}
  /\ activeNotes = {"C", "D"}

\* the positions in the history of the keydown and keyup events of the key
\* of a note
KeyEventsOf(note) ==
  {i \in 1 .. Len(inputs) :
     /\ inputs[i].type \in {"keydown", "keyup"}
     /\ getNoteFromKeyCode(inputs[i].code) = note}

\* the last event of the key of a note is a press
LastWasPress(note) ==
  /\ KeyEventsOf(note) # {}
  /\ \A i \in KeyEventsOf(note) :
        (\A j \in KeyEventsOf(note) : j <= i) => inputs[i].type = "keydown"

\* C18 (SpecKeys): after any history of keydown and keyup events, repeated
\* keydowns and shifts of octave or changes of tone among them, a note is in
\* activeNotes exactly when the last event of its key is a press, and
\* activeNotes holds notes of the table only.
C18_HeldIffLastEventPress ==
  /\ activeNotes \subseteq Notes
  /\ \A note \in Notes : note \in activeNotes <=> LastWasPress(note)

\* C pressed, the octave shifted, C pressed again (auto-repeat), D released
\* without having been pressed: C is held, D is not
C18_Witness ==
  /\ inputs = <<KeyDown(65), OctaveUp, KeyDown(65), KeyUp(83)>>
  /\ activeNotes = {"C"}
  /\ LastWasPress("C")
  /\ ~LastWasPress("D")

----------------------------------------------------------------------------
(* Chunks and sessions: claim C19, under SpecRec. *)

\* C19 (SpecRec), as claimed: the chunk list is empty whenever the session is
\* Idle, every click on Start Recording that starts a recorder leaves the
\* chunk list empty, and the Blob of a recorder holds no chunk of a recorder
\* started before it.
C19_ChunksOnlyWhileCapturing ==
  /\ [](SessionState = "Idle" => audioChunks = <<>>)
  /\ [](\A r \in Finalized :
          \A i \in 1 .. Len(audioBlob[r]) : audioBlob[r][i].rec >= r)
  /\ [][startRecording(TRUE) => audioChunks' = <<>>]_vars

----------------------------------------------------------------------------
(* The outputs of the encoder: claim C20, under SpecEncode. *)

\* what the encoder gives, call after call, for blocks of these sizes and
\* the flush after them, empty outputs included
RECURSIVE EncoderOutputs(_, _)
EncoderOutputs(blocks, held) ==
  IF blocks = <<>> THEN <<flush(held)>>
  ELSE LET enc == encodeBuffer(held, Head(blocks))
       IN <<enc.mp3buf>> \o EncoderOutputs(Tail(blocks), enc.held)

\* C20 (SpecEncode): a conversion whose header is read does not fail when a
\* block gives an output of zero bytes; the list it returns, and hands to
\* saveAs, holds the outputs of the block calls, in the order of the calls,
\* followed by that of flush, without the empty ones, and no element of it
\* is empty.
C20_OnlyNonEmptyOutputsInOrder ==
  \A c \in Conversions :
     readHeader(c.wavBuffer).ok =>
        LET outputs == EncoderOutputs(c.mp3Buffer.blocks, Mp3Encoder) IN
        /\ ~c.mp3Buffer.threw
        /\ c.mp3Buffer.mp3Data = SelectSeq(outputs, LAMBDA mp3buf : mp3buf > 0)
        /\ \A i \in 1 .. Len(c.mp3Buffer.mp3Data) : c.mp3Buffer.mp3Data[i] > 0
        /\ result[c.rec] = "saved"
        /\ saved = <<[rec |-> c.rec, mp3 |-> c.mp3Buffer.mp3Data]>>

\* two blocks and 600 samples: the first block and the last give nothing,
\* the second gives one frame and flush gives two; one and two were saved
C20_Witness ==
  \E c \in Conversions :
     /\ c.mp3Buffer.blocks = <<sampleBlockSize, sampleBlockSize, 600>>
     /\ EncoderOutputs(c.mp3Buffer.blocks, Mp3Encoder) = <<0, 1, 0, 2>>
     /\ saved = <<[rec |-> c.rec, mp3 |-> <<1, 2>>]>>

----------------------------------------------------------------------------
(* Tone parameters: claim C21, under SpecTone. *)

\* C21 (SpecTone): a change of a tone parameter, and the effect that hands
\* the new value to the synth, leave the held notes, the octave, the session
\* state, the recorders and the chunk list as they are and call neither
\* triggerAttack nor triggerRelease.
C21_ToneChangeLeavesNotesAndSession ==
  [][ ((\E value \in ToneValues : Delivered(Event("setting", value, null)))
        \/ (effectPending /\ ~effectPending')) =>
         /\ UNCHANGED <<activeNotes, effects, mediaRecorder, recState, audioChunks,
                        audioBlob, finalize, result, saved>>
         /\ settings'.octave = settings.octave
         /\ SessionState' = SessionState
    ]_vars

\* C held and a recording Capturing with a chunk in its list: the tone was
\* changed to 2 and the synth set with it, C is still held, nothing but its
\* attack was called, and the recording goes on
C21_Witness ==
  /\ inputs = <<KeyDown(65), Event("setting", 2, null)>>
  /\ synthParams = 2
  /\ ~effectPending
  /\ activeNotes = {"C"}
  /\ Len(effects) = 1
  /\ SessionState = "Capturing"
  /\ Len(audioChunks) = 1

----------------------------------------------------------------------------
(* The pitch of a release: claim C22, under SpecKeys. *)

\* the position in effects of the attack that release j ends: the last
\* attack of the same note before it (0 when there is none)
AttackOf(j) ==
  LET before == {i \in 1 .. j - 1 :
                   /\ effects[i].op = "triggerAttack"
                   /\ effects[i].pitch.note = effects[j].pitch.note}
  IN IF before = {} THEN 0 ELSE CHOOSE i \in before : \A k \in before : k <= i

\* C22 (SpecKeys), as claimed: with the keyboard, every triggerRelease is
\* called with the pitch the triggerAttack of that held note was called
\* with, whether or not the octave was shifted between the press and the
\* release.
C22_ReleasePitchIsAttackPitch ==
  KeyboardOnly =>
     \A j \in 1 .. Len(effects) :
        effects[j].op = "triggerRelease" =>
           /\ AttackOf(j) # 0
           /\ effects[AttackOf(j)].pitch = effects[j].pitch

----------------------------------------------------------------------------
(* A start during a suspended onstop: claim C23, under SpecSuspended. *)

\* C23 (SpecSuspended): when a recording is started while the onstop of the
\* one before it awaits its buffer, the Blob of every recorder holds the
\* chunks of that recorder, all of them and no other, in arrival order; and
\* the chunks of the recorders whose Blob is not built yet are all in the
\* chunk list: the onstop that resumes takes none of them and drops none.
C23_StartDuringAwaitKeepsChunksApart ==
  /\ \A r \in Finalized : audioBlob[r] = ChunksOf(r, arrived)
  /\ audioChunks = SelectSeq(arrived, LAMBDA c : c.rec \notin Finalized)

\* recorder 2 was started while the onstop of recorder 1 awaited, that onstop
\* has ended, and each of the two Blobs holds the chunks of its recorder
C23_Witness ==
  /\ finalize[1] = "done"
  /\ finalize[2] = "awaiting"
  /\ audioBlob[1] # <<>>
  /\ audioBlob[2] # <<>>
  /\ audioBlob[1] = ChunksOf(1, arrived)
  /\ audioBlob[2] = ChunksOf(2, arrived)

----------------------------------------------------------------------------
(* The block loop: claim C24, under SpecEncode. *)

\* the least number of blocks of 1152 samples that hold n samples
CeilBlocks(n) == (n + sampleBlockSize - 1) \div sampleBlockSize

RECURSIVE SumOf(_)
SumOf(seq) == IF seq = <<>> THEN 0 ELSE Head(seq) + SumOf(Tail(seq))

\* C24 (SpecEncode): for a buffer of N samples whose header is read, the
\* loop of convertToMp3 ends after ceil(N / 1152) calls of encodeBuffer; the
\* first block begins at sample 0, every block begins where the one before
\* it ends, no block is empty, and the last one ends at N, so that every
\* sample 0 .. N-1 is in exactly one block, in increasing order; and flush
\* comes once, after the last block: the frames returned are those of N
\* samples, ceil(N / 1152) of them.
C24_LoopCoversSamplesOnce ==
  \A c \in Conversions :
     readHeader(c.wavBuffer).ok =>
        LET N == samplesLength(c.wavBuffer, readHeader(c.wavBuffer))
            blocks == c.mp3Buffer.blocks
            offsets == c.mp3Buffer.offsets
            count == Len(blocks)
        IN /\ count = CeilBlocks(N)
           /\ Len(offsets) = count
           /\ count > 0 => offsets[1] = 0 /\ offsets[count] + blocks[count] = N
           /\ \A k \in 1 .. count : blocks[k] > 0
           /\ \A k \in 1 .. count - 1 : offsets[k] + blocks[k] = offsets[k + 1]
           /\ SumOf(blocks) = N
           /\ SumOf(c.mp3Buffer.mp3Data) = CeilBlocks(N)

\* 3 blocks and 600 samples more: four calls, the last with the samples
\* 3456 to 4055
C24_Witness ==
  \E c \in Conversions :
     /\ c.mp3Buffer.offsets = <<0, 1152, 2304, 3456>>
     /\ c.mp3Buffer.blocks = <<1152, 1152, 1152, 600>>
     /\ SumOf(c.mp3Buffer.mp3Data) = 4

----------------------------------------------------------------------------
(* Every capture ends: claim C25, under SpecRecFair. *)

\* the component still holds every recorder that records, so that Stop
\* Recording reaches it
NoCaptureLeftRunning == \A r \in RecIds : recState[r] = "recording" => mediaRecorder = r

\* at most one result of a recorder was handed to saveAs
AtMostOneSave ==
  \A i, j \in 1 .. Len(saved) : saved[i].rec = saved[j].rec => i = j

\* what was handed to saveAs is of a recorder that was stopped
NoSaveWithoutStop ==
  \A i \in 1 .. Len(saved) : recState[saved[i].rec] = "inactive"

\* a recorder that was stopped gets to the end of its onstop
StoppedIsFinalized ==
  \A r \in RecIds : (recState[r] = "stopping") ~> (finalize[r] = "done")

\* C25 (SpecRecFair), as claimed: every recorder that was started and then
\* stopped gets to the end of its onstop; every recorder hands at most one
\* result to saveAs, and none before it was stopped; and no recorder is left
\* recording without the component holding it for Stop Recording.
C25_EveryCaptureEnds ==
  /\ StoppedIsFinalized
  /\ []AtMostOneSave
  /\ []NoSaveWithoutStop
  /\ []NoCaptureLeftRunning

====
